---- MODULE Spec2Model ----
(***************************************************************************)
(* Model of numpy/lib/arraysetops.py: set operations on 1-D arrays based   *)
(* on sorting.  Every function is pure; the state machine draws two input  *)
(* arrays in Init and each action applies one function to them and records *)
(* what it returns.                                                        *)
(*                                                                         *)
(* Arrays are TLA+ sequences (1-based).  Index values stored IN arrays     *)
(* (perm, ii, indx, the indices returned by unique1d) keep numpy's 0-based *)
(* values, so position k of the program is element k+1 of the sequence.    *)
(* Boolean-mask indexing x[m] follows the numpy of this code's time: a     *)
(* mask shorter than x selects among the first len(m) elements of x.       *)
(***************************************************************************)
EXTENDS Integers, Sequences, FiniteSets

VARIABLES ar1, ar2, pc, out, indices, mask, perm

vars == <<ar1, ar2, pc, out, indices, mask, perm>>

\* Bounds of the model: array length and element values.
MaxLen == 3
MaxVal == 3

Values == 1..MaxVal
Arrays == UNION {[1..n -> Values] : n \in 0..MaxLen}

----------------------------------------------------------------------------
(* numpy primitives the module relies on *)

Range(s) == {s[i] : i \in 1..Len(s)}

\* np.concatenate((x, y))
concatenate(x, y) == x \o y

\* x[1:]
Tail1(x) == IF Len(x) = 0 THEN <<>> ELSE SubSeq(x, 2, Len(x))

\* x[:-1]
Init1(x) == IF Len(x) = 0 THEN <<>> ELSE SubSeq(x, 1, Len(x) - 1)

\* elementwise x == y and x != y on arrays of equal length
EqArr(x, y) == [i \in 1..Len(x) |-> x[i] = y[i]]
NeArr(x, y) == [i \in 1..Len(x) |-> x[i] # y[i]]

\* x[m] for a boolean mask m with len(m) <= len(x)
RECURSIVE BoolIndex(_, _)
BoolIndex(x, m) ==
    IF m = <<>> THEN <<>>
    ELSE LET k == Len(m)
         IN  BoolIndex(x, SubSeq(m, 1, k - 1)) \o (IF m[k] THEN <<x[k]>> ELSE <<>>)

\* x[idx] for an integer (0-based) index array idx
Take(x, idx) == [i \in 1..Len(idx) |-> x[idx[i] + 1]]

\* np.where(m)[0] for an integer array m: the 0-based positions of its nonzeros
where(m) == BoolIndex([i \in 1..Len(m) |-> i - 1], [i \in 1..Len(m) |-> m[i] # 0])

\* flag * aux2: bool times int8 with numpy broadcasting of a length-1 operand
Mul(f, t) ==
    LET n == IF Len(f) = Len(t) THEN Len(f) ELSE IF Len(f) = 1 THEN Len(t) ELSE Len(f)
        fa(i) == IF Len(f) = 1 THEN f[1] ELSE f[i]
        ta(i) == IF Len(t) = 1 THEN t[1] ELSE t[i]
    IN  [i \in 1..n |-> (IF fa(i) THEN 1 ELSE 0) * ta(i)]

\* p[idx] = vals: the assignments happen in index order, a later one wins
AssignAt(p, idx, vals) ==
    [i \in 1..Len(p) |->
        IF \E k \in 1..Len(idx) : idx[k] + 1 = i
        THEN vals[CHOOSE k \in 1..Len(idx) :
                     /\ idx[k] + 1 = i
                     /\ \A j \in 1..Len(idx) : idx[j] + 1 = i => j <= k]
        ELSE p[i]]

\* x.sort(): ascending by value (equal values are indistinguishable, so the
\* result does not depend on the sorting algorithm)
RECURSIVE sort(_)
sort(x) ==
    IF x = <<>> THEN <<>>
    ELSE LET n == Len(x)
             s == sort(SubSeq(x, 1, n - 1))
             k == Cardinality({i \in 1..Len(s) : s[i] <= x[n]})
         IN  SubSeq(s, 1, k) \o <<x[n]>> \o SubSeq(s, k + 1, Len(s))

\* x.argsort(kind='mergesort'): the stable sorting permutation (0-based values)
RECURSIVE argsort_mergesort(_)
argsort_mergesort(x) ==
    IF x = <<>> THEN <<>>
    ELSE LET n == Len(x)
             p == argsort_mergesort(SubSeq(x, 1, n - 1))
             k == Cardinality({i \in 1..Len(p) : x[p[i] + 1] <= x[n]})
         IN  SubSeq(p, 1, k) \o <<n - 1>> \o SubSeq(p, k + 1, Len(p))

\* the permutations of 0..n-1, as arrays
Permutations0(n) ==
    {p \in [1..n -> 0..(n - 1)] : \A i, j \in 1..n : p[i] = p[j] => i = j}

IsNonDecreasing(x) == \A i \in 1..(Len(x) - 1) : x[i] <= x[i + 1]

\* x.argsort() with the default (unstable) kind: any permutation that sorts x
argsort(x) == {p \in Permutations0(Len(x)) : IsNonDecreasing(Take(x, p))}

----------------------------------------------------------------------------
(* the functions of arraysetops.py *)

\* flag = [True] ++ (aux[1:] != aux[:-1]) for a non-empty sorted aux
unique1d_flag(aux) == <<TRUE>> \o NeArr(Tail1(aux), Init1(aux))

\* mutant: the adjacent-duplicate flag is never applied
unique1d_noflag(x) == sort(x)

\* unique1d(ar1), return_index=False
unique1d(x) ==
    IF Len(x) = 0 THEN x
    ELSE LET ar == sort(x)
         IN  BoolIndex(ar, unique1d_flag(ar))

\* mutant: returns the kept positions of the sorted array instead of perm[flag]
unique1d_index_sortedpos(x, p) ==
    IF Len(x) = 0 THEN <<<<>>, x>>
    ELSE LET aux == Take(x, p)
             flag == unique1d_flag(aux)
         IN  <<BoolIndex([i \in 1..Len(p) |-> i - 1], flag), BoolIndex(aux, flag)>>

\* unique1d(ar1, return_index=True) when argsort yields p: (indices, values)
unique1d_index(x, p) ==
    IF Len(x) = 0 THEN <<<<>>, x>>
    ELSE LET aux == Take(x, p)
             flag == unique1d_flag(aux)
         IN  <<BoolIndex(p, flag), BoolIndex(aux, flag)>>

\* mutant: the inputs are deduplicated before merging
intersect1d_dedup(x, y) ==
    LET aux == sort(concatenate(unique1d(x), unique1d(y)))
    IN  BoolIndex(aux, EqArr(Tail1(aux), Init1(aux)))

intersect1d(x, y) ==
    LET aux == sort(concatenate(x, y))
    IN  BoolIndex(aux, EqArr(Tail1(aux), Init1(aux)))

\* mutant: the inputs are merged without deduplication
intersect1d_nu_nodedup(x, y) ==
    LET aux == sort(concatenate(x, y))
    IN  BoolIndex(aux, EqArr(Tail1(aux), Init1(aux)))

intersect1d_nu(x, y) ==
    LET aux == sort(concatenate(unique1d(x), unique1d(y)))
    IN  BoolIndex(aux, EqArr(Tail1(aux), Init1(aux)))

\* mutant: flag2 compares with != and keeps the values present in both inputs
setxor1d_neflag(x, y) ==
    LET aux0 == concatenate(x, y)
    IN  IF Len(aux0) = 0 THEN aux0
        ELSE LET aux == sort(aux0)
                 flag == <<TRUE>> \o NeArr(Tail1(aux), Init1(aux)) \o <<TRUE>>
                 flag2 == NeArr(Tail1(flag), Init1(flag))
             IN  BoolIndex(aux, flag2)

\* mutant: the concatenation is not sorted before the adjacency test
setxor1d_nosort(x, y) ==
    LET aux == concatenate(x, y)
    IN  IF Len(aux) = 0 THEN aux
        ELSE LET flag == <<TRUE>> \o NeArr(Tail1(aux), Init1(aux)) \o <<TRUE>>
                 flag2 == EqArr(Tail1(flag), Init1(flag))
             IN  BoolIndex(aux, flag2)

setxor1d(x, y) ==
    LET aux0 == concatenate(x, y)
    IN  IF Len(aux0) = 0 THEN aux0
        ELSE LET aux == sort(aux0)
                 flag == <<TRUE>> \o NeArr(Tail1(aux), Init1(aux)) \o <<TRUE>>
                 flag2 == EqArr(Tail1(flag), Init1(flag))
             IN  BoolIndex(aux, flag2)

\* mutant: the origin tags are exchanged
setmember1d_tt_swapped(x, y) ==
    concatenate([i \in 1..Len(x) |-> 1], [i \in 1..Len(y) |-> 0])

\* tt: origin tag 0 for the elements of ar1, 1 for those of ar2
setmember1d_tt(x, y) ==
    concatenate([i \in 1..Len(x) |-> 0], [i \in 1..Len(y) |-> 1])

\* perm as returned by the stable argsort of the concatenation
setmember1d_argsort(x, y) == argsort_mergesort(concatenate(x, y))

\* flag = (aux[1:] == aux[:-1]) ++ [False]
setmember1d_flag(x, y) ==
    LET aux == Take(concatenate(x, y), setmember1d_argsort(x, y))
    IN  EqArr(Tail1(aux), Init1(aux)) \o <<FALSE>>

\* ii = where(flag * aux2)
setmember1d_ii(x, y) ==
    LET aux2 == Take(setmember1d_tt(x, y), setmember1d_argsort(x, y))
    IN  where(Mul(setmember1d_flag(x, y), aux2))

\* perm after  aux = perm[ii+1]; perm[ii+1] = perm[ii]; perm[ii] = aux
setmember1d_perm(x, y) ==
    LET perm0 == setmember1d_argsort(x, y)
        ii == setmember1d_ii(x, y)
        ii1 == [k \in 1..Len(ii) |-> ii[k] + 1]
        aux == Take(perm0, ii1)
        perm1 == AssignAt(perm0, ii1, Take(perm0, ii))
    IN  AssignAt(perm1, ii, aux)

\* mutant: the permutation is used without being inverted
setmember1d_indx_noinvert(x, y) == SubSeq(setmember1d_perm(x, y), 1, Len(x))

\* indx = perm.argsort(kind='mergesort')[:len(ar1)]
setmember1d_indx(x, y) ==
    SubSeq(argsort_mergesort(setmember1d_perm(x, y)), 1, Len(x))

setmember1d(x, y) == Take(setmember1d_flag(x, y), setmember1d_indx(x, y))

union1d(x, y) == unique1d(concatenate(x, y))

\* mutant: keeps the elements whose mask is True
setdiff1d_keepmembers(x, y) ==
    LET aux == setmember1d(x, y)
    IN  IF Len(aux) = 0 THEN <<>>
        ELSE BoolIndex(x, aux)

setdiff1d(x, y) ==
    LET aux == setmember1d(x, y)
    IN  IF Len(aux) = 0 THEN <<>>
        ELSE BoolIndex(x, [i \in 1..Len(aux) |-> ~aux[i]])

----------------------------------------------------------------------------
(* the state machine: one call of one function on the drawn inputs *)

Init ==
    /\ ar1 \in Arrays
    /\ ar2 \in Arrays
    /\ pc = "input"
    /\ out = <<>>
    /\ indices = <<>>
    /\ mask = <<>>
    /\ perm = <<>>

Call_unique1d ==
    /\ pc = "input"
    /\ pc' = "unique1d"
    /\ out' = unique1d(ar1)
    /\ UNCHANGED <<ar1, ar2, indices, mask, perm>>

Call_unique1d_index ==
    /\ pc = "input"
    /\ \E p \in argsort(ar1) :
          /\ indices' = unique1d_index(ar1, p)[1]
          /\ out' = unique1d_index(ar1, p)[2]
    /\ pc' = "unique1d_index"
    /\ UNCHANGED <<ar1, ar2, mask, perm>>

Call_intersect1d ==
    /\ pc = "input"
    /\ pc' = "intersect1d"
    /\ out' = intersect1d(ar1, ar2)
    /\ UNCHANGED <<ar1, ar2, indices, mask, perm>>

Call_intersect1d_nu ==
    /\ pc = "input"
    /\ pc' = "intersect1d_nu"
    /\ out' = intersect1d_nu(ar1, ar2)
    /\ UNCHANGED <<ar1, ar2, indices, mask, perm>>

Call_setxor1d ==
    /\ pc = "input"
    /\ pc' = "setxor1d"
    /\ out' = setxor1d(ar1, ar2)
    /\ UNCHANGED <<ar1, ar2, indices, mask, perm>>

Call_setmember1d ==
    /\ pc = "input"
    /\ pc' = "setmember1d"
    /\ perm' = setmember1d_perm(ar1, ar2)
    /\ mask' = setmember1d(ar1, ar2)
    /\ UNCHANGED <<ar1, ar2, out, indices>>

Call_union1d ==
    /\ pc = "input"
    /\ pc' = "union1d"
    /\ out' = union1d(ar1, ar2)
    /\ UNCHANGED <<ar1, ar2, indices, mask, perm>>

Call_setdiff1d ==
    /\ pc = "input"
    /\ pc' = "setdiff1d"
    /\ out' = setdiff1d(ar1, ar2)
    /\ UNCHANGED <<ar1, ar2, indices, mask, perm>>

Next ==
    \/ Call_unique1d
    \/ Call_unique1d_index
    \/ Call_intersect1d
    \/ Call_intersect1d_nu
    \/ Call_setxor1d
    \/ Call_setmember1d
    \/ Call_union1d
    \/ Call_setdiff1d

Spec == Init /\ [][Next]_vars

----------------------------------------------------------------------------
(* properties *)

NoDup(x) == \A i, j \in 1..Len(x) : x[i] = x[j] => i = j

Count(x, v) == Cardinality({i \in 1..Len(x) : x[i] = v})

IsStrictlyAscending(x) == \A i \in 1..(Len(x) - 1) : x[i] < x[i + 1]

SortedResultOps ==
    {"unique1d", "unique1d_index", "intersect1d", "intersect1d_nu", "union1d", "setxor1d"}

C2_AllResultsSorted ==
    pc \in SortedResultOps \cup {"setdiff1d"} => IsNonDecreasing(out)

\* C2 (amended): the results of unique1d, intersect1d, intersect1d_nu, union1d
\* and setxor1d are non-decreasing for all inputs; the result of setdiff1d
\* keeps the order of a and is non-decreasing whenever a is.
C2_ResultsSorted ==
    /\ pc \in SortedResultOps => IsNonDecreasing(out)
    /\ pc = "setdiff1d" /\ IsNonDecreasing(ar1) => IsNonDecreasing(out)

C2_Witness ==
    /\ pc = "setxor1d"
    /\ ~IsNonDecreasing(concatenate(ar1, ar2))
    /\ Len(out) >= 2

\* C3: unique1d(s) is strictly ascending, holds exactly the values of s, and
\* unique1d(unique1d(s)) = unique1d(s).
C3_DedupStrictAndIdempotent ==
    pc = "unique1d" =>
        /\ IsStrictlyAscending(out)
        /\ Range(out) = Range(ar1)
        /\ unique1d(out) = out

C3_Witness ==
    /\ pc = "unique1d"
    /\ ~IsNonDecreasing(ar1)
    /\ Len(out) >= 2
    /\ Len(out) < Len(ar1)

\* C4: whichever sorting permutation argsort yields, unique1d with
\* return_index returns as many indices as values, every index is a position
\* of s, and values[i] = s[indices[i]].
C4_IndicesSelectValues ==
    pc = "unique1d_index" =>
        /\ Len(indices) = Len(out)
        /\ \A i \in 1..Len(indices) :
              /\ indices[i] \in 0..(Len(ar1) - 1)
              /\ out[i] = ar1[indices[i] + 1]

\* an index of a later occurrence was reported: the sort was not stable
C4_Witness ==
    /\ pc = "unique1d_index"
    /\ Len(out) >= 2
    /\ \E i \in 1..Len(indices) : \E j \in 1..Len(ar1) :
          j < indices[i] + 1 /\ ar1[j] = out[i]

\* C5: intersect1d(a, b) holds k-1 copies of every value that occurs k >= 1
\* times in the concatenation of a and b, and nothing else.
C5_IntersectRunCount ==
    pc = "intersect1d" =>
        \A v \in Values :
            Count(out, v) =
                IF Count(concatenate(ar1, ar2), v) >= 1
                THEN Count(concatenate(ar1, ar2), v) - 1
                ELSE 0

\* a value twice in a and never in b appears once
C5_Witness ==
    /\ pc = "intersect1d"
    /\ \E v \in Values :
          Count(ar1, v) = 2 /\ Count(ar2, v) = 0 /\ Count(out, v) = 1

\* C6: intersect1d_nu(a, b) is the strictly ascending sequence of the values
\* occurring in both a and b, and equals intersect1d_nu(b, a).
C6_IntersectUniqueIsSetIntersection ==
    pc = "intersect1d_nu" =>
        /\ IsStrictlyAscending(out)
        /\ Range(out) = Range(ar1) \cap Range(ar2)
        /\ out = intersect1d_nu(ar2, ar1)

C6_Witness ==
    /\ pc = "intersect1d_nu"
    /\ ~NoDup(ar1)
    /\ ~NoDup(ar2)
    /\ ar1 # ar2
    /\ Len(out) >= 1

\* C7: for duplicate-free a and b, setxor1d(a, b) holds exactly the values
\* occurring in precisely one of a and b, each once, and its length is
\* len(a) + len(b) - 2 * len(intersect1d_nu(a, b)).
C7_XorOfDistinctInputs ==
    pc = "setxor1d" /\ NoDup(ar1) /\ NoDup(ar2) =>
        /\ Range(out) = (Range(ar1) \ Range(ar2)) \cup (Range(ar2) \ Range(ar1))
        /\ NoDup(out)
        /\ Len(out) = Len(ar1) + Len(ar2) - 2 * Len(intersect1d_nu(ar1, ar2))

C7_Witness ==
    /\ pc = "setxor1d"
    /\ NoDup(ar1)
    /\ NoDup(ar2)
    /\ Range(ar1) \cap Range(ar2) # {}
    /\ Len(out) >= 2

\* C8: for duplicate-free a and b, setdiff1d(a, b) and intersect1d_nu(a, b)
\* share no value and together hold exactly the values of unique1d(a).
C8_DifferenceIntersectionPartition ==
    pc = "setdiff1d" /\ NoDup(ar1) /\ NoDup(ar2) =>
        /\ Range(out) \cap Range(intersect1d_nu(ar1, ar2)) = {}
        /\ Range(out) \cup Range(intersect1d_nu(ar1, ar2)) = Range(unique1d(ar1))

C8_Witness ==
    /\ pc = "setdiff1d"
    /\ NoDup(ar1)
    /\ NoDup(ar2)
    /\ Len(out) >= 1
    /\ Len(intersect1d_nu(ar1, ar2)) >= 1

\* C9: the mask of setmember1d(a, b) is the same for every b2 holding the
\* same set of values as b, whatever the multiplicities.
C9_MaskDependsOnValueSetOfB ==
    pc = "setmember1d" =>
        \A b2 \in Arrays : Range(b2) = Range(ar2) => setmember1d(ar1, b2) = mask

C9_Witness ==
    /\ pc = "setmember1d"
    /\ ~NoDup(ar1)
    /\ ~NoDup(ar2)
    /\ \E i \in 1..Len(mask) : mask[i]
    /\ \E b2 \in Arrays : Range(b2) = Range(ar2) /\ Len(b2) < Len(ar2)

\* C10: after the position fixup of setmember1d the index sequence is still
\* a permutation of 0..len(a)+len(b)-1.
C10_FixupKeepsPermutation ==
    pc = "setmember1d" => perm \in Permutations0(Len(ar1) + Len(ar2))

====
